---- MODULE Spec2Model ----
\* A model of the vampc front end: Scanner::scan (src/src/scanner.rs) turns a
\* character sequence into tokens, Parser::parse (src/src/parser.rs) turns a
\* token sequence into top-level declarations.
\*
\* Characters are one-character strings, texts are sequences of characters.
\* An Option<T> is a sequence of length 0 (None) or 1 (Some).
\* A peekable iterator over a sequence is the number of items it has yielded.
EXTENDS Integers, Sequences, FiniteSets, TLC

VARIABLES
  input,          \* Scanner.input, as a sequence of characters
  output,         \* Scanner.output
  chars,          \* scan's `chars` iterator: characters consumed so far
  starts,         \* for each token of output, the index of its first character
  scanner_state,  \* "unused" | "scanning" | "done"
  parser_input,   \* Parser.input
  parser_output,  \* Parser.output
  tokens,         \* parse's `tokens` iterator: tokens consumed so far
  statements,     \* parse_statement_body's `statements`
  name,           \* the function name parse_function_declaration has bound
  parser_state,   \* "unused" | "top" | "body" | "done" | "failed"
  panic           \* Option of the panic raised: [message, args]

vars == <<input, output, chars, starts, scanner_state, parser_input,
          parser_output, tokens, statements, name, parser_state, panic>>

scanner_vars == <<input, output, chars, starts, scanner_state>>

parser_vars == <<parser_input, parser_output, tokens, statements, name,
                 parser_state, panic>>

-----------------------------------------------------------------------------
\* Bounds of the model.

\* Longest source text drawn from Alphabet.
MaxLen == 4

\* Longest token sequence drawn from CoreTokens.
MaxTokens == 4

\* Longest token sequence drawn from AllTokens.
MaxMixed == 2

-----------------------------------------------------------------------------
\* Characters.

Letters ==
  {"a", "b", "c", "d", "e", "f", "g", "h", "i", "j", "k", "l", "m", "n", "o",
   "p", "q", "r", "s", "t", "u", "v", "w", "x", "y", "z",
   "A", "B", "C", "D", "E", "F", "G", "H", "I", "J", "K", "L", "M", "N", "O",
   "P", "Q", "R", "S", "T", "U", "V", "W", "X", "Y", "Z"}

Digits == {"0", "1", "2", "3", "4", "5", "6", "7", "8", "9"}

None == <<>>

Some(x) == <<x>>

\* Peekable::peek at cursor p of sequence s.
Peek(s, p) == IF p < Len(s) THEN Some(s[p + 1]) ELSE None

\* The cursor after Iterator::next at cursor p of sequence s.
Advance(s, p) == IF p < Len(s) THEN p + 1 ELSE p

-----------------------------------------------------------------------------
\* Tokens.

Comment(text) == <<"Comment", text>>

Identifier(n) == <<"Identifier", n>>

Keyword(k) == <<"Keyword", k>>

Numeric(text) == <<"Numeric", text>>

Operator(symbol) == <<"Operator", symbol>>

Pair(symbol, type) == <<"Pair", symbol, type>>

String(text) == <<"String", text>>

Unknown(c) == <<"Unknown", c>>

\* The result of scanning one lexeme: the token, if any, and the cursor after.
Scanned(token, p) == [token |-> token, chars |-> p]

-----------------------------------------------------------------------------
\* Scanner.

RECURSIVE CommentLoop(_, _, _)
CommentLoop(s, p, comment) ==
  LET peek == Peek(s, p) IN
  IF peek = None \/ peek = Some("\n")
    THEN Scanned(Some(Comment(comment)), Advance(s, p))
    ELSE CommentLoop(s, p + 1, Append(comment, peek[1]))

scan_comment(s, p, next) ==
  IF Peek(s, p) = Some("/")
    THEN CommentLoop(s, p + 1, <<>>)
    ELSE Scanned(Some(Unknown(next)), p)

\* The match on the name with a prefix test for the equality: a name that
\* starts with a reserved word is that keyword.
KeywordOrIdentifier_Prefix(n) ==
  IF Len(n) >= 4 /\ SubSeq(n, 1, 4) = <<"f", "u", "n", "c">>
    THEN Keyword("Func")
    ELSE IF Len(n) >= 3 /\ SubSeq(n, 1, 3) = <<"l", "e", "t">>
      THEN Keyword("Let")
      ELSE Identifier(n)

\* The reserved word a name spells, if any.
KeywordOrIdentifier(n) ==
  IF n = <<"f", "u", "n", "c">>
    THEN Keyword("Func")
    ELSE IF n = <<"l", "e", "t">>
      THEN Keyword("Let")
      ELSE Identifier(n)

RECURSIVE NameLoop(_, _, _, _)
NameLoop(s, p, n, current) ==
  LET pushed == Append(n, current)
      peek == Peek(s, p) IN
  IF peek /= None /\ peek[1] \in Letters
    THEN NameLoop(s, p + 1, pushed, peek[1])
    ELSE Scanned(Some(KeywordOrIdentifier(pushed)), p)

scan_keyword_or_identifier(s, p, next) == NameLoop(s, p, <<>>, next)

RECURSIVE NumberLoop(_, _, _, _, _)
NumberLoop(s, p, number, current, is_float) ==
  LET pushed == Append(number, current)
      peek == Peek(s, p) IN
  IF peek /= None /\ peek[1] \in Digits
    THEN NumberLoop(s, p + 1, pushed, peek[1], is_float)
    ELSE IF peek = Some(".") /\ ~is_float
      THEN NumberLoop(s, p + 1, pushed, peek[1], TRUE)
      ELSE Scanned(Some(Numeric(pushed)), p)

scan_number(s, p, next) == NumberLoop(s, p, <<>>, next, FALSE)

\* scan_string without the newline in its terminating arm: a literal runs on
\* over line ends to the closing quote or the end of input.
RECURSIVE StringLoop_OverNewline(_, _, _)
StringLoop_OverNewline(s, p, literal) ==
  LET peek == Peek(s, p) IN
  IF peek = Some("'")
    THEN Scanned(Some(String(literal)), Advance(s, p + 1))
    ELSE IF peek = None
      THEN Scanned(Some(String(literal)), p)
      ELSE StringLoop_OverNewline(s, p + 1, Append(literal, peek[1]))

RECURSIVE StringLoop(_, _, _)
StringLoop(s, p, literal) ==
  LET peek == Peek(s, p) IN
  IF peek = Some("'")
    THEN Scanned(Some(String(literal)), Advance(s, p + 1))
    ELSE IF peek = None \/ peek = Some("\n")
      THEN Scanned(Some(String(literal)), Advance(s, p))
      ELSE StringLoop(s, p + 1, Append(literal, peek[1]))

scan_string(s, p) == StringLoop(s, p, <<>>)

\* One iteration of scan's loop whose chars.next() returned `next`, leaving the
\* cursor at p.
ScanToken(s, p, next) ==
  CASE next \in Letters -> scan_keyword_or_identifier(s, p, next)
    [] next \in Digits -> scan_number(s, p, next)
    [] next = "'" -> scan_string(s, p)
    [] next = "+" -> Scanned(Some(Operator("Addition")), p)
    [] next = "-" -> Scanned(Some(Operator("Subtraction")), p)
    [] next = "=" ->
         IF Peek(s, p) = Some("=")
           THEN Scanned(Some(Operator("Equality")), p + 1)
           ELSE Scanned(Some(Operator("Assignment")), p)
    [] next = "(" -> Scanned(Some(Pair("Parentheses", "Open")), p)
    [] next = ")" -> Scanned(Some(Pair("Parentheses", "Close")), p)
    [] next = "{" -> Scanned(Some(Pair("CurlyBracket", "Open")), p)
    [] next = "}" -> Scanned(Some(Pair("CurlyBracket", "Close")), p)
    [] next = "/" -> scan_comment(s, p, next)
    [] next \in {" ", "\n"} -> Scanned(None, p)
    [] OTHER -> Scanned(Some(Unknown(next)), p)

\* `while let Some(next) = chars.next()`: one iteration of the loop.
ScanStep ==
  /\ scanner_state = "scanning"
  /\ chars < Len(input)
  /\ LET r == ScanToken(input, chars + 1, input[chars + 1]) IN
       /\ chars' = r.chars
       /\ output' = output \o r.token
       /\ starts' = IF r.token = None THEN starts ELSE Append(starts, chars + 1)
  /\ UNCHANGED <<input, scanner_state>>
  /\ UNCHANGED parser_vars

\* chars.next() returns None: scan returns.
ScanEnd ==
  /\ scanner_state = "scanning"
  /\ chars >= Len(input)
  /\ scanner_state' = "done"
  /\ UNCHANGED <<input, output, chars, starts>>
  /\ UNCHANGED parser_vars

-----------------------------------------------------------------------------
\* Declarations.

DeclarationComment(text) == <<"Comment", text>>

DeclarationFunction(n, body) == <<"Function", n, body>>

StatementExpression(expression) == <<"Expression", expression>>

\* panic!(message, args...): the message and the values formatted into it.
Panic(message, args) == [message |-> message, args |-> args]

IsToken(option, type) == option /= None /\ option[1][1] = type

CurlyOpen == Pair("CurlyBracket", "Open")

CurlyClose == Pair("CurlyBracket", "Close")

-----------------------------------------------------------------------------
\* Parser.

\* parse_comment_contents with `if let` for `while let`: it absorbs at most one
\* following comment.
parse_comment_contents_Once(toks, p, buffer) ==
  LET peek == Peek(toks, p) IN
  IF IsToken(peek, "Comment")
    THEN [text |-> buffer \o <<"\n">> \o peek[1][2], tokens |-> p + 1]
    ELSE [text |-> buffer, tokens |-> p]

RECURSIVE parse_comment_contents(_, _, _)
parse_comment_contents(toks, p, buffer) ==
  LET peek == Peek(toks, p) IN
  IF IsToken(peek, "Comment")
    THEN parse_comment_contents(toks, p + 1, buffer \o <<"\n">> \o peek[1][2])
    ELSE [text |-> buffer, tokens |-> p]

parse_expression(toks, p) == None

parse_statement(toks, p) ==
  LET expression == parse_expression(toks, p) IN
  IF expression /= None
    THEN Some(StatementExpression(expression[1]))
    ELSE None

\* Parser::new on a token sequence.
NewParser(toks) ==
  /\ parser_input' = toks
  /\ parser_output' = <<>>
  /\ tokens' = 0
  /\ statements' = <<>>
  /\ name' = <<>>
  /\ parser_state' = "top"
  /\ panic' = None

\* The driver hands the scanner's output to a new parser.
StartParse ==
  /\ scanner_state = "done"
  /\ parser_state = "unused"
  /\ NewParser(output)
  /\ UNCHANGED scanner_vars

\* A panic at cursor p: parse unwinds, the parser keeps what it has.
Fail(message, args, p) ==
  /\ parser_state' = "failed"
  /\ panic' = Some(Panic(message, args))
  /\ tokens' = p
  /\ UNCHANGED <<parser_input, parser_output, statements, name>>

\* Top-level loop, Token::Comment arm.
ParseComment ==
  /\ parser_state = "top"
  /\ IsToken(Peek(parser_input, tokens), "Comment")
  /\ LET next == parser_input[tokens + 1]
         r == parse_comment_contents(parser_input, tokens + 1, next[2]) IN
       /\ parser_output' = Append(parser_output, DeclarationComment(r.text))
       /\ tokens' = r.tokens
  /\ UNCHANGED <<parser_input, statements, name, parser_state, panic>>
  /\ UNCHANGED scanner_vars

\* Top-level loop, Keyword::Func arm: parse_function_declaration up to the
\* start of parse_statement_body's loop.
ParseFunction ==
  /\ parser_state = "top"
  /\ Peek(parser_input, tokens) = Some(Keyword("Func"))
  /\ LET p == tokens + 1
         peek == Peek(parser_input, p) IN
       IF IsToken(peek, "Identifier")
         THEN IF Peek(parser_input, p + 1) = Some(CurlyOpen)
           THEN /\ name' = peek[1][2]
                /\ statements' = <<>>
                /\ tokens' = p + 2
                /\ parser_state' = "body"
                /\ UNCHANGED <<parser_input, parser_output, panic>>
           ELSE Fail("Expected {", <<>>, p + 1)
         ELSE Fail("Expected Identifier", <<>>, p)
  /\ UNCHANGED scanner_vars

\* The panicking arms turned into arms that yield no declaration: the token is
\* skipped.
ParseUnexpected_Skip ==
  /\ parser_state = "top"
  /\ tokens < Len(parser_input)
  /\ LET next == parser_input[tokens + 1] IN
       /\ next[1] /= "Comment"
       /\ next /= Keyword("Func")
  /\ tokens' = tokens + 1
  /\ UNCHANGED <<parser_input, parser_output, statements, name, parser_state, panic>>
  /\ UNCHANGED scanner_vars

\* Top-level loop, the two panicking arms.
ParseUnexpected ==
  /\ parser_state = "top"
  /\ tokens < Len(parser_input)
  /\ LET next == parser_input[tokens + 1] IN
       /\ next[1] /= "Comment"
       /\ next /= Keyword("Func")
       /\ IF next[1] = "Keyword"
            THEN Fail("Unexpected keyword @ top level: {:?}", <<next>>, tokens + 1)
            ELSE Fail("Unexpected token @ top level: {:?}", <<next>>, tokens + 1)
  /\ UNCHANGED scanner_vars

\* parse_statement_body returns: parse_function_declaration builds the
\* declaration and parse pushes it.
FinishFunction(p) ==
  /\ parser_output' = Append(parser_output, DeclarationFunction(name, statements))
  /\ tokens' = p
  /\ parser_state' = "top"
  /\ statements' = <<>>
  /\ name' = <<>>
  /\ UNCHANGED <<parser_input, panic>>

\* parse_statement_body's loop without the tokens.next() of its closing-brace
\* arm: the brace is left for the top-level loop.
ParseBody_BraceLeft ==
  /\ parser_state = "body"
  /\ LET peek == Peek(parser_input, tokens) IN
       IF peek = None
         THEN Fail("Expected }", <<>>, tokens)
         ELSE FinishFunction(tokens)
  /\ UNCHANGED scanner_vars

\* parse_statement_body's loop without the `break` of its last arm: when no
\* statement is parsed the loop goes round again.
ParseBody_NoBreak ==
  /\ parser_state = "body"
  /\ LET peek == Peek(parser_input, tokens) IN
       IF peek = Some(CurlyClose)
         THEN FinishFunction(tokens + 1)
         ELSE IF peek = None
           THEN Fail("Expected }", <<>>, tokens)
           ELSE UNCHANGED parser_vars
  /\ UNCHANGED scanner_vars

\* One iteration of parse_statement_body's loop.
ParseBody ==
  /\ parser_state = "body"
  /\ LET peek == Peek(parser_input, tokens) IN
       IF peek = Some(CurlyClose)
         THEN FinishFunction(tokens + 1)
         ELSE IF peek = None
           THEN Fail("Expected }", <<>>, tokens)
           ELSE LET statement == parse_statement(parser_input, tokens) IN
                IF statement /= None
                  THEN /\ statements' = Append(statements, statement[1])
                       /\ UNCHANGED <<parser_input, parser_output, tokens, name,
                                      parser_state, panic>>
                  ELSE FinishFunction(tokens)
  /\ UNCHANGED scanner_vars

\* tokens.next() returns None at top level: parse returns.
ParseEnd ==
  /\ parser_state = "top"
  /\ tokens >= Len(parser_input)
  /\ parser_state' = "done"
  /\ UNCHANGED <<parser_input, parser_output, tokens, statements, name, panic>>
  /\ UNCHANGED scanner_vars

-----------------------------------------------------------------------------
\* Inputs.

Alphabet == {"a", "1", ".", "'", "/", "\n", " ", "\t", "="}

GeneralSources == UNION {[1..n -> Alphabet] : n \in 0..MaxLen}

Func == <<"f", "u", "n", "c">>

FunctionNames == {<<"m">>, <<"m", "a", "i", "n">>, <<"A">>}

Parens == <<"(", ")">>

\* `func <name>() { }`, and the same without the parentheses or the gaps.
FunctionSource(n, params, gap) ==
  Func \o <<" ">> \o n \o params \o gap \o <<"{">> \o gap \o <<"}">>

FunctionSources ==
  {FunctionSource(n, params, gap) :
     n \in FunctionNames, params \in {<<>>, Parens}, gap \in {<<>>, <<" ">>}}

MalformedSources ==
  {Func \o <<" ", "{">>,
   Func \o <<" ", "m">>,
   Func \o <<" ", "m", " ", "{">>,
   Func \o <<" ", "m", " ", "{", " ", "1", " ", "}">>,
   <<"l", "e", "t", " ", "x">>}

\* Names that are, start with, end with or resemble a reserved word.
Words ==
  {Func,
   <<"l", "e", "t">>,
   <<"f", "u", "n", "c", "t", "i", "o", "n">>,
   <<"l", "e", "t", "s">>,
   <<"F", "u", "n", "c">>,
   <<"L", "E", "T">>,
   <<"f", "u", "n">>,
   <<"x", "l", "e", "t">>,
   <<"f", "u", "n", "c", "l", "e", "t">>}

\* A word, alone or next to a digit, an underscore, a quote, a space or a brace.
WordSources ==
  {before \o w \o after :
     w \in Words,
     before \in {<<>>, <<"1">>, <<"_">>},
     after \in {<<>>, <<"1">>, <<"_">>, <<" ", "x">>, <<"(">>, <<"'">>}}

Foo == <<"f", "o", "o">>

Bar == <<"b", "a", "r">>

\* String literals: closed, cut off by a newline, cut off by the end of input.
StringSources ==
  {<<"'">> \o Foo \o <<"'">>,
   <<"'">> \o Foo,
   <<"'">> \o Foo \o <<"\n">> \o Bar,
   <<"'">> \o Foo \o <<"\n">> \o Bar \o <<"'">>,
   <<"'">> \o Foo \o <<" ", "1", "'", " ">> \o Bar,
   <<"'">> \o Foo \o <<"'", "x", "'">> \o Bar \o <<"\n", "1">>,
   <<"x", " ", "'", "\n", "\n", "'">> \o Foo}

Sources ==
  GeneralSources \cup FunctionSources \cup MalformedSources \cup WordSources
  \cup StringSources

CoreTokens ==
  {Comment(<<"a">>), Comment(<<"b">>), Keyword("Func"), Keyword("Let"),
   Identifier(<<"m">>), CurlyOpen, CurlyClose, Pair("Parentheses", "Open")}

AllTokens ==
  CoreTokens \cup
  {Comment(<<>>), Numeric(<<"1">>), Operator("Addition"), String(<<"s">>),
   Pair("Parentheses", "Close"), Unknown(".")}

TokenSequences ==
  UNION {[1..n -> CoreTokens] : n \in 0..MaxTokens}
  \cup UNION {[1..n -> AllTokens] : n \in 0..MaxMixed}

-----------------------------------------------------------------------------
\* Specification.

\* Scanner::new on a source text; no parser yet.
InitSource ==
  /\ input \in Sources
  /\ output = <<>>
  /\ chars = 0
  /\ starts = <<>>
  /\ scanner_state = "scanning"
  /\ parser_input = <<>>
  /\ parser_output = <<>>
  /\ tokens = 0
  /\ statements = <<>>
  /\ name = <<>>
  /\ parser_state = "unused"
  /\ panic = None

\* Parser::new on a token sequence that no scanner produced.
InitTokens ==
  /\ input = <<>>
  /\ output = <<>>
  /\ chars = 0
  /\ starts = <<>>
  /\ scanner_state = "unused"
  /\ parser_input \in TokenSequences
  /\ parser_output = <<>>
  /\ tokens = 0
  /\ statements = <<>>
  /\ name = <<>>
  /\ parser_state = "top"
  /\ panic = None

Init == InitSource \/ InitTokens

Next ==
  \/ ScanStep
  \/ ScanEnd
  \/ StartParse
  \/ ParseComment
  \/ ParseFunction
  \/ ParseUnexpected
  \/ ParseBody
  \/ ParseEnd

Spec == Init /\ [][Next]_vars

\* The program is sequential: whenever a step is possible it is taken.
FairSpec == Spec /\ WF_vars(Next)

-----------------------------------------------------------------------------
\* Vocabulary of the properties.

Whitespace == {" ", "\n", "\t"}

ScanDone == scanner_state = "done"

ParseFinished == parser_state \in {"done", "failed"}

RECURSIVE WithoutWhitespace(_)
WithoutWhitespace(s) ==
  IF s = <<>>
    THEN <<>>
    ELSE (IF Head(s) \in Whitespace THEN <<>> ELSE <<Head(s)>>)
         \o WithoutWhitespace(Tail(s))

\* Length of the lexeme of token t that starts at index i of s: the token's
\* text and its delimiters.
LexemeLen(t, s, i) ==
  CASE t[1] = "Comment" -> 2 + Len(t[2])
    [] t[1] \in {"Identifier", "Numeric"} -> Len(t[2])
    [] t[1] = "Keyword" -> IF t[2] = "Func" THEN 4 ELSE 3
    [] t[1] = "Operator" -> IF t[2] = "Equality" THEN 2 ELSE 1
    [] t[1] = "String" ->
         LET close == i + Len(t[2]) + 1 IN
         IF close <= Len(s) /\ s[close] = "'" THEN Len(t[2]) + 2 ELSE Len(t[2]) + 1
    [] OTHER -> 1

SpanEnd(k) == starts[k] + LexemeLen(output[k], input, starts[k]) - 1

Span(k) == SubSeq(input, starts[k], SpanEnd(k))

RECURSIVE SpansFrom(_)
SpansFrom(k) == IF k > Len(output) THEN <<>> ELSE Span(k) \o SpansFrom(k + 1)

-----------------------------------------------------------------------------
\* C1: when scan has returned, every non-whitespace character of the input lies
\* in the span of exactly one token, the spans are disjoint and in input order,
\* and the spans concatenated are the input without its whitespace.
C1_SpansCoverInput ==
  ScanDone =>
    /\ \A i \in 1..Len(input) :
         input[i] \notin Whitespace =>
           Cardinality({k \in 1..Len(output) : starts[k] <= i /\ i <= SpanEnd(k)}) = 1
    /\ \A k \in 1..(Len(output) - 1) : SpanEnd(k) < starts[k + 1]
    /\ WithoutWhitespace(SpansFrom(1)) = WithoutWhitespace(input)

-----------------------------------------------------------------------------
\* The tokens of FunctionSource(n, params, gap).
FunctionTokens(n, params) ==
  <<Keyword("Func"), Identifier(n)>>
  \o (IF params = Parens
        THEN <<Pair("Parentheses", "Open"), Pair("Parentheses", "Close")>>
        ELSE <<>>)
  \o <<CurlyOpen, CurlyClose>>

\* C2, as amended: the source `func <name> { }` scans to Keyword(Func),
\* Identifier(name), Pair(CurlyBracket, Open), Pair(CurlyBracket, Close) and
\* parses to the one declaration Function{name, body: []}; the source
\* `func <name>() { }` scans to the six tokens with the parentheses, and parsing
\* them fails with "Expected {" without emitting a declaration.
C2_FunctionEndToEnd ==
  \A n \in FunctionNames, params \in {<<>>, Parens}, gap \in {<<>>, <<" ">>} :
    input = FunctionSource(n, params, gap) =>
      /\ ScanDone => output = FunctionTokens(n, params)
      /\ ParseFinished =>
           IF params = <<>>
             THEN /\ parser_state = "done"
                  /\ parser_output = <<DeclarationFunction(n, <<>>)>>
             ELSE /\ parser_state = "failed"
                  /\ panic = Some(Panic("Expected {", <<>>))
                  /\ parser_output = <<>>

\* C2 witness: `func main { }` has been scanned and parsed to one Function.
C2_Witness ==
  /\ input = FunctionSource(<<"m", "a", "i", "n">>, <<>>, <<" ">>)
  /\ parser_state = "done"
  /\ parser_output = <<DeclarationFunction(<<"m", "a", "i", "n">>, <<>>)>>

\* C2 as stated: `func <name>() { }` scans to the six tokens and parses to the
\* one declaration Function{name, body: []}.
C2_Original ==
  \A n \in FunctionNames :
    input = FunctionSource(n, Parens, <<" ">>) =>
      /\ ScanDone => output = FunctionTokens(n, Parens)
      /\ ParseFinished =>
           /\ parser_state = "done"
           /\ parser_output = <<DeclarationFunction(n, <<>>)>>

-----------------------------------------------------------------------------
\* C3: whenever a Function declaration is emitted, the token cursor is just
\* past a Pair(CurlyBracket, Close), the closing brace of its body.
C3_FunctionEndsAtBrace ==
  [][(/\ Len(parser_output') = Len(parser_output) + 1
      /\ parser_output'[Len(parser_output')][1] = "Function")
     => (tokens' >= 1 /\ parser_input[tokens'] = CurlyClose)]_vars

-----------------------------------------------------------------------------
\* C4: a failed parse has no declarations in its output.
C4_FailedParseIsEmpty == parser_state = "failed" => parser_output = <<>>

-----------------------------------------------------------------------------
\* C5: no Unknown token carries a whitespace character (space, newline, tab).
C5_NoWhitespaceToken ==
  \A k \in 1..Len(output) :
    output[k][1] = "Unknown" => output[k][2] \notin Whitespace

-----------------------------------------------------------------------------
\* A run that starts with a digit, holds only digits and at most one `.`, and
\* whose `.` is interior.
WellFormedNumeric(text) ==
  /\ text /= <<>>
  /\ text[1] \in Digits
  /\ \A i \in 1..Len(text) : text[i] \in Digits \cup {"."}
  /\ Cardinality({i \in 1..Len(text) : text[i] = "."}) <= 1
  /\ \A i \in 1..Len(text) :
       text[i] = "." =>
         /\ 1 < i /\ i < Len(text)
         /\ text[i - 1] \in Digits
         /\ text[i + 1] \in Digits

\* C6: the text of every Numeric token starts with a digit, holds only digits
\* and at most one `.`, and that `.` has a digit on both sides.
C6_NumericWellFormed ==
  \A k \in 1..Len(output) :
    output[k][1] = "Numeric" => WellFormedNumeric(output[k][2])

-----------------------------------------------------------------------------
\* The token the parser was looking at when it failed: the peeked token of the
\* three `Expected` panics, the token just taken of the top-level panics.
EndOfInput == <<"end of input">>

Offending ==
  IF panic /= None /\ panic[1].message \in {"Expected Identifier", "Expected {", "Expected }"}
    THEN Peek(parser_input, tokens)
    ELSE Peek(parser_input, tokens - 1)

\* C7: every failure of parse carries the offending token: the token the
\* parser was looking at when it failed, or "end of input" when there is none.
C7_FailureNamesToken ==
  parser_state = "failed" =>
    /\ panic /= None
    /\ IF Offending = None
         THEN panic[1].args = <<EndOfInput>>
         ELSE panic[1].args = Offending

-----------------------------------------------------------------------------
\* Maximal runs of adjacent Comment tokens, and their texts joined by newlines.
IsComment(toks, i) == toks[i][1] = "Comment"

\* The last index of the maximal run of comments of toks that starts at i.
RunEnd(toks, i) ==
  CHOOSE j \in i..Len(toks) :
    /\ \A k \in i..j : IsComment(toks, k)
    /\ j < Len(toks) => ~IsComment(toks, j + 1)

RECURSIVE Joined(_, _, _)
Joined(toks, i, j) ==
  IF i = j THEN toks[i][2] ELSE toks[i][2] \o <<"\n">> \o Joined(toks, i + 1, j)

RECURSIVE JoinedRuns(_, _)
JoinedRuns(toks, i) ==
  IF i > Len(toks)
    THEN <<>>
    ELSE IF IsComment(toks, i)
      THEN <<Joined(toks, i, RunEnd(toks, i))>> \o JoinedRuns(toks, RunEnd(toks, i) + 1)
      ELSE JoinedRuns(toks, i + 1)

RECURSIVE CommentTexts(_)
CommentTexts(declarations) ==
  IF declarations = <<>>
    THEN <<>>
    ELSE (IF Head(declarations)[1] = "Comment" THEN <<Head(declarations)[2]>> ELSE <<>>)
         \o CommentTexts(Tail(declarations))

\* C8: the Comment declarations emitted so far are, in order, the maximal runs
\* of adjacent Comment tokens among the tokens consumed so far, each run one
\* declaration whose text is the run's texts joined with a newline (n texts,
\* n - 1 newlines); and the parser never stops in the middle of a run.
C8_CommentRunsMerged ==
  parser_state /= "unused" =>
    /\ CommentTexts(parser_output) = JoinedRuns(SubSeq(parser_input, 1, tokens), 1)
    /\ ~(/\ 1 <= tokens /\ tokens < Len(parser_input)
         /\ IsComment(parser_input, tokens)
         /\ IsComment(parser_input, tokens + 1))

\* C8 witness: a run of three comments has become one declaration.
C8_Witness ==
  /\ parser_state = "done"
  /\ \E k \in 1..Len(parser_output) :
       parser_output[k] = DeclarationComment(<<"a", "\n", "b", "\n", "a">>)

-----------------------------------------------------------------------------
\* The parser is at the start of a top-level declaration that cannot be parsed.
MustFail ==
  /\ parser_state = "top"
  /\ tokens < Len(parser_input)
  /\ LET next == parser_input[tokens + 1] IN
       \/ next[1] /= "Comment" /\ next /= Keyword("Func")
       \/ /\ next = Keyword("Func")
          /\ \/ ~IsToken(Peek(parser_input, tokens + 1), "Identifier")
             \/ Peek(parser_input, tokens + 2) /= Some(CurlyOpen)

\* C9: a step of the parser at top level whose next token is neither a Comment
\* nor Keyword(Func), or is Keyword(Func) not followed by an Identifier and
\* then Pair(CurlyBracket, Open), fails and emits no declaration.
C9_UnexpectedTokenFails ==
  [][MustFail =>
       /\ parser_state' = "failed"
       /\ panic' /= None
       /\ parser_output' = parser_output]_vars

\* C9 witness: a Numeric token at the start of a declaration, after a
\* well-formed declaration, has failed the parse.
C9_Witness ==
  /\ parser_state = "failed"
  /\ parser_output /= <<>>
  /\ panic = Some(Panic("Unexpected token @ top level: {:?}", <<Numeric(<<"1">>)>>))

-----------------------------------------------------------------------------
\* The characters some rule of the lexer matches.
RuleCharacters ==
  Letters \cup Digits \cup Whitespace
  \cup {"'", "+", "-", "=", "(", ")", "{", "}", "/"}

\* Both passes have ended.
Finished ==
  /\ scanner_state \in {"unused", "done"}
  /\ ParseFinished

\* C10: every iteration of scan's loop consumes at least one character and
\* never fails, a character that starts no lexeme and is no whitespace becomes
\* Unknown(that character), every parser step consumes a token or leaves the
\* loop it is in, and every run ends: scan returns, and parse returns or fails.
C10_Terminates ==
  /\ [][/\ scanner_state = "scanning" /\ chars < Len(input) =>
             /\ chars' > chars /\ chars' <= Len(input)
             /\ scanner_state' = "scanning"
             /\ input[chars + 1] \notin RuleCharacters =>
                  /\ output' = Append(output, Unknown(input[chars + 1]))
                  /\ chars' = chars + 1
        /\ parser_state \in {"top", "body"} =>
             \/ tokens' > tokens /\ tokens' <= Len(parser_input)
             \/ parser_state' /= parser_state]_vars
  /\ <>Finished

\* C10 witness: a source with a character no rule matches has been scanned to
\* the end, with that character as an Unknown token, and its parse has ended.
C10_Witness ==
  /\ ScanDone
  /\ ParseFinished
  /\ \E k \in 1..Len(output) : output[k] = Unknown(".")

-----------------------------------------------------------------------------
\* The last index of the maximal run of letters of s that starts at index i.
LetterRunEnd(s, i) ==
  CHOOSE j \in i..Len(s) :
    /\ \A k \in i..j : s[k] \in Letters
    /\ j < Len(s) => s[j + 1] \notin Letters

\* C11: a token whose first character is a letter covers the maximal run of
\* letters from that character: the next token starts after the run, and the
\* token is Keyword(Func) when the run is `func`, Keyword(Let) when it is `let`
\* and Identifier(run) otherwise; Keyword and Identifier tokens start with a
\* letter, and no Identifier holds `func` or `let`.
C11_KeywordIsWholeRun ==
  \A k \in 1..Len(output) :
    LET i == starts[k]
        run == SubSeq(input, i, LetterRunEnd(input, i)) IN
    /\ input[i] \in Letters =>
         /\ output[k] = (CASE run = <<"f", "u", "n", "c">> -> Keyword("Func")
                           [] run = <<"l", "e", "t">> -> Keyword("Let")
                           [] OTHER -> Identifier(run))
         /\ k < Len(output) => starts[k + 1] > LetterRunEnd(input, i)
         /\ k = Len(output) => chars >= LetterRunEnd(input, i)
    /\ output[k][1] \in {"Keyword", "Identifier"} => input[i] \in Letters
    /\ output[k][1] = "Identifier" =>
         output[k][2] \notin {<<"f", "u", "n", "c">>, <<"l", "e", "t">>}

\* C11 witness: `function1` has been scanned to Identifier("function") and a
\* Numeric: the run starts with a reserved word and stops before the digit.
C11_Witness ==
  /\ ScanDone
  /\ input = <<"f", "u", "n", "c", "t", "i", "o", "n", "1">>
  /\ output = <<Identifier(<<"f", "u", "n", "c", "t", "i", "o", "n">>), Numeric(<<"1">>)>>

-----------------------------------------------------------------------------
\* The index of the first closing quote or newline of s after index i, or
\* Len(s) + 1 when there is none.
StringStop(s, i) ==
  CHOOSE e \in (i + 1)..(Len(s) + 1) :
    /\ \A k \in (i + 1)..(e - 1) : s[k] \notin {"'", "\n"}
    /\ e <= Len(s) => s[e] \in {"'", "\n"}

\* C12: a String token starts at a single quote and its text is the characters
\* after that quote up to, and excluding, the first closing quote, newline or
\* end of input; when a newline cuts the literal off, scanning resumes with the
\* character after the newline: up to the next token, or to the end of the
\* scan, only spaces and newlines are passed over.
C12_StringText ==
  \A k \in 1..Len(output) :
    output[k][1] = "String" =>
      LET i == starts[k]
          e == StringStop(input, i)
          resume == IF k < Len(output) THEN starts[k + 1] ELSE chars + 1 IN
      /\ input[i] = "'"
      /\ output[k][2] = SubSeq(input, i + 1, e - 1)
      /\ (e <= Len(input) /\ input[e] = "\n") =>
           /\ resume > e
           /\ \A j \in (e + 1)..(resume - 1) : input[j] \in {" ", "\n"}

\* C12 witness: `'foo\nbar'` has been scanned to String("foo"),
\* Identifier("bar") and String("").
C12_Witness ==
  /\ ScanDone
  /\ input = <<"'">> \o Foo \o <<"\n">> \o Bar \o <<"'">>
  /\ output = <<String(Foo), Identifier(Bar), String(<<>>)>>

====
